---- MODULE Spec2Model ----
(***************************************************************************)
(* Model of index.py: the Telegram scheduler bot.  One asyncio event loop  *)
(* runs the background scheduler() task, the /run-scheduler request        *)
(* handlers and the inbound message handler; they share post_queue.        *)
(* Control only changes hands at an await that really suspends: the        *)
(* network calls bot.send_photo / bot.send_message and asyncio.sleep.      *)
(* put() on an unbounded asyncio.Queue and get() on a non-empty one        *)
(* complete without suspending.                                            *)
(***************************************************************************)
EXTENDS Integers, Sequences, FiniteSets, Bags, TLC

\* ---- bounds of the model ----
MaxItems == 2
MaxFails == 1
NumTriggers == 1
MaxPosts == 10

\* ---- configuration (index.py:17, 26-28) ----
ADMIN_ID == 1

time(h, m, s, us) == [hour |-> h, minute |-> m, second |-> s, microsecond |-> us]

START_TIME == time(8, 0, 0, 0)
END_TIME == time(22, 0, 0, 0)

\* datetime.time ordering: lexicographic on (hour, minute, second, microsecond)
TimeLEStrict(a, b) ==
    \/ a.hour < b.hour
    \/ a.hour = b.hour /\ a.minute < b.minute
    \/ a.hour = b.hour /\ a.minute = b.minute /\ a.second < b.second
    \/ a.hour = b.hour /\ a.minute = b.minute /\ a.second = b.second
       /\ a.microsecond < b.microsecond

TimeLE(a, b) ==
    \/ a.hour < b.hour
    \/ a.hour = b.hour /\ a.minute < b.minute
    \/ a.hour = b.hour /\ a.minute = b.minute /\ a.second < b.second
    \/ a.hour = b.hour /\ a.minute = b.minute /\ a.second = b.second
       /\ a.microsecond <= b.microsecond

\* the test of line 70: START_TIME <= now_time <= END_TIME
InWindow(t) == TimeLE(START_TIME, t) /\ TimeLE(t, END_TIME)

\* the values datetime.now().time() is sampled at
ClockPoints ==
    << time(7, 59, 59, 999999), time(8, 0, 0, 0), time(15, 30, 0, 0),
       time(22, 0, 0, 0), time(22, 0, 0, 1) >>

\* the times of day at which /run-scheduler requests arrive
RequestTimes == << time(7, 59, 59, 999999), time(15, 30, 0, 0) >>

\* now_time before line 69 has run in the iteration
NoTime == time(-1, -1, -1, -1)

\* ---- processes ----
Triggers == 1..NumTriggers
Sched == 0
Procs == {Sched} \cup Triggers

\* a post_data dict; seq is history: the number of the put() that placed it
\* in the queue (0: not put yet)
NoPost == [id |-> 0, type |-> "none", seq |-> 0]
NoSize == -1
NoResp == [status |-> "none", queue_size |-> NoSize]

Users == {ADMIN_ID, ADMIN_ID + 1}
\* an inbound message: sender, and whether message.photo / message.text are set
Messages == [from_user : Users, photo : BOOLEAN, text : BOOLEAN]

VARIABLES
    post_queue,   \* asyncio.Queue contents, head first
    next_id,      \* identity of the next post_data dict created
    pc,           \* per process: where the coroutine is suspended
    post,         \* per process: the local variable post / post_data
    now_time,     \* scheduler: the time read in the current iteration,
                  \*   NoTime at the top of the loop
    channel,      \* bag of the publish calls that succeeded
    answer,       \* the last message.answer of handle_new_post
    resp,         \* per trigger: the last response of /run-scheduler
    fails,        \* number of failed publish calls so far
    n_put,        \* history: number of put() calls so far
    n_got,        \* history: number of get() calls that returned so far
    prev_size,    \* history, per trigger in flight: qsize() at the call
    delta,        \* history, per trigger in flight: puts minus gets of the
                  \*   others since the call
    call_time,    \* history, per trigger in flight: "in" / "out" of the
                  \*   active window at the call
    interval      \* scheduler: the configuration it reads and the interval
                  \*   it computes from it (lines 63-67)

vars == << post_queue, next_id, pc, post, now_time, channel, answer, resp,
           fails, n_put, n_got, prev_size, delta, call_time, interval >>

\* ---- asyncio.Queue ----
\* the history counters n_put and n_got count up to HistoryCap, which is
\* the number of puts the program can make when at most MaxFails publish
\* calls fail; beyond it (an item that fails forever) they stay there
HistoryCap == MaxItems + MaxFails
Tally(n) == IF n < HistoryCap THEN n + 1 ELSE n

Stamp(item) == [item EXCEPT !.seq = Tally(n_put)]
QPut(q, item) == Append(q, Stamp(item))

QPeekLast(q) == q[Len(q)]
QGetItem(q) == Head(q)

QKeep(q) == q
QGetRest(q) == Tail(q)

RECURSIVE CountIn(_, _)
CountIn(s, i) ==
    IF s = << >> THEN 0
    ELSE (IF Head(s) = i THEN 1 ELSE 0) + CountIn(Tail(s), i)

Ids(q) == [k \in 1..Len(q) |-> q[k].id]

\* every trigger call in flight other than p sees one more put (d = 1) or
\* one more get (d = -1); p's own history is given by own
Bump(p, d, own) ==
    [t \in Triggers |->
        IF t = p THEN own
        ELSE IF pc[t] # "idle" THEN delta[t] + d ELSE delta[t]]

\* post = await post_queue.get() followed by the call of
\* send_post_to_channel up to its first suspension (lines 71-72, 116-117):
\* on an empty queue get() suspends the caller; otherwise it returns the
\* head at once and the caller is next suspended in bot.send_*
QueueGet(p) ==
    IF post_queue = << >>
    THEN /\ pc' = [pc EXCEPT ![p] = "get"]
         /\ UNCHANGED << post, post_queue, n_got, delta >>
    ELSE /\ post' = [post EXCEPT ![p] = QGetItem(post_queue)]
         /\ post_queue' = QGetRest(post_queue)
         /\ n_got' = Tally(n_got)
         /\ delta' = Bump(p, -1, 0)
         /\ pc' = [pc EXCEPT ![p] = "publishing"]

\* ---- the advisory interval (lines 63-67) ----
POSTS_PER_DAY == 10

\* a quotient of integers that Python's "/" computes, kept exact
NoValue == [num |-> 0, den |-> 0]

\* the configuration the scheduler reads, before it has computed anything
IntervalInput(start, end, posts) ==
    [start |-> start, end |-> end, posts_per_day |-> posts, value |-> NoValue]

\* lines 63-67
IntervalUnguarded(c) ==
    [c EXCEPT !.value =
        [num |-> (c.end.hour * 3600 + c.end.minute * 60)
                   - (c.start.hour * 3600 + c.start.minute * 60),
         den |-> c.posts_per_day]]
Interval(c) ==
    LET start_total_seconds == c.start.hour * 3600 + c.start.minute * 60
        end_total_seconds == c.end.hour * 3600 + c.end.minute * 60
        total_seconds_in_day == end_total_seconds - start_total_seconds
    IN  [c EXCEPT !.value =
            IF c.posts_per_day > 0
            THEN [num |-> total_seconds_in_day, den |-> c.posts_per_day]
            ELSE [num |-> 3600, den |-> 1]]

\* everything but the scheduler's configuration
Boot ==
    /\ post_queue = << >>
    /\ next_id = 1
    /\ pc = [p \in Procs |-> IF p = Sched THEN "poll" ELSE "idle"]
    /\ post = [p \in Procs |-> NoPost]
    /\ now_time = NoTime
    /\ channel = EmptyBag
    /\ answer = [kind |-> "none", size |-> NoSize]
    /\ resp = [t \in Triggers |-> NoResp]
    /\ fails = 0
    /\ n_put = 0
    /\ n_got = 0
    /\ prev_size = [t \in Triggers |-> 0]
    /\ delta = [t \in Triggers |-> 0]
    /\ call_time = [t \in Triggers |-> "none"]

Init ==
    /\ Boot
    /\ interval = IntervalInput(START_TIME, END_TIME, POSTS_PER_DAY)

\* ---- handle_new_post (lines 31-46) ----
PostDataOfAny(msg) ==
    IF msg.photo THEN [id |-> next_id, type |-> "photo", seq |-> 0]
    ELSE [id |-> next_id, type |-> "text", seq |-> 0]
PostDataOf(msg) ==
    IF msg.photo THEN [id |-> next_id, type |-> "photo", seq |-> 0]
    ELSE IF msg.text THEN [id |-> next_id, type |-> "text", seq |-> 0]
    ELSE NoPost

handle_new_post(msg) ==
    /\ UNCHANGED interval
    /\ IF msg.from_user # ADMIN_ID
       THEN /\ answer' = [kind |-> "not allowed", size |-> NoSize]
            /\ UNCHANGED << post_queue, next_id, n_put, delta >>
       ELSE LET post_data == PostDataOf(msg) IN
            IF post_data # NoPost
            THEN /\ next_id <= MaxItems
                 /\ post_queue' = QPut(post_queue, post_data)
                 /\ next_id' = next_id + 1
                 /\ n_put' = Tally(n_put)
                 /\ delta' = Bump(-1, 1, 0)
                 /\ answer' = [kind |-> "queued", size |-> Len(post_queue')]
            ELSE /\ answer' = [kind |-> "unsupported", size |-> NoSize]
                 /\ UNCHANGED << post_queue, next_id, n_put, delta >>
    /\ UNCHANGED << pc, post, now_time, channel, resp, fails, n_got,
                    prev_size, call_time >>

\* ---- scheduler (lines 60-81) ----
SchedGateStrict(t, q) ==
    TimeLEStrict(START_TIME, t) /\ TimeLEStrict(t, END_TIME) /\ q # << >>
SchedGateWindowOnly(t, q) == InWindow(t)
SchedGate(t, q) == InWindow(t) /\ q # << >>

\* one iteration up to its first suspension, datetime.now().time() being
\* now: lines 63-72 and 74-76
scheduler_poll(now) ==
    /\ pc[Sched] = "poll"
    /\ interval' = Interval(interval)
    /\ now_time' = now
    /\ IF SchedGate(now_time', post_queue)
       THEN QueueGet(Sched)
       ELSE /\ pc' = [pc EXCEPT ![Sched] = "sleep30"]
            /\ UNCHANGED << post, post_queue, n_got, delta >>
    /\ UNCHANGED << next_id, channel, answer, resp, fails, n_put,
                    prev_size, call_time >>

\* asyncio.sleep(30) returns (line 76), or asyncio.sleep(60) (line 81)
scheduler_wake ==
    /\ UNCHANGED interval
    /\ pc[Sched] \in {"sleep30", "sleep60"}
    /\ pc' = [pc EXCEPT ![Sched] = "poll"]
    /\ now_time' = NoTime
    /\ UNCHANGED << post_queue, next_id, post, channel, answer,
                    resp, fails, n_put, n_got, prev_size, delta,
                    call_time >>

\* ---- run_scheduler_endpoint (lines 113-125) ----
\* the test of line 115; the time of the call, now, is not consulted
TriggerGateWindowed(q, now) == q # << >> /\ InWindow(now)
TriggerGateAlways(q, now) == TRUE
TriggerGate(q, now) == q # << >>

\* a request arrives when the wall clock shows now
run_scheduler_endpoint(t, now) ==
    /\ UNCHANGED interval
    /\ pc[t] = "idle"
    /\ IF TriggerGate(post_queue, now)
       THEN /\ QueueGet(t)
            /\ resp' = [resp EXCEPT ![t] = NoResp]
            /\ prev_size' = [prev_size EXCEPT ![t] = Len(post_queue)]
            /\ call_time' = [call_time EXCEPT ![t] =
                                IF InWindow(now) THEN "in" ELSE "out"]
       ELSE /\ resp' = [resp EXCEPT ![t] = [status |-> "Queue is empty",
                                             queue_size |-> NoSize]]
            /\ UNCHANGED << post, post_queue, n_got, pc, delta, prev_size,
                            call_time >>
    /\ UNCHANGED << next_id, now_time, channel, answer, fails, n_put >>

\* ---- send_post_to_channel (lines 48-58) and the return to its caller ----
SendMethod(post_data) ==
    IF post_data.type = "photo" THEN "send_photo"
    ELSE IF post_data.type = "text" THEN "send_message"
    ELSE "none"

\* the queue_size of the response: post_queue.qsize() at line 119
ReportedSizeStale(p, q) == prev_size[p] - 1
ReportedSize(p, q) == Len(q)

\* where the caller goes when send_post_to_channel has returned: the
\* scheduler logs (line 73) and is at the top of "while True" again (line
\* 61), with no sleep; the endpoint's call is over
AfterDispatchExit(p) == IF p = Sched THEN "exited" ELSE "idle"
AfterDispatchSleep(p) == IF p = Sched THEN "sleep30" ELSE "idle"
AfterDispatch(p) == IF p = Sched THEN "poll" ELSE "idle"

\* what the caller does when send_post_to_channel returns, with queue q:
\* the scheduler starts its next iteration (line 73, then 61); the endpoint
\* returns its response (lines 118-119)
Return(p, q) ==
    /\ pc' = [pc EXCEPT ![p] = AfterDispatch(p)]
    /\ post' = [post EXCEPT ![p] = NoPost]
    /\ IF p = Sched
       THEN UNCHANGED resp
       ELSE resp' = [resp EXCEPT ![p] = [status |-> "Post sent from queue",
                                          queue_size |-> ReportedSize(p, q)]]
    /\ now_time' = (IF p = Sched THEN NoTime ELSE now_time)
    /\ prev_size' = [t \in Triggers |-> IF t = p THEN 0 ELSE prev_size[t]]
    /\ call_time' = [t \in Triggers |-> IF t = p THEN "none" ELSE call_time[t]]

\* the queue when bot.send_* has returned: nothing is put back
QueueAfterOkRequeue(p) == QPut(post_queue, post[p])
QueueAfterOk(p) == post_queue

\* bot.send_photo / bot.send_message returns (lines 50-54)
publish_ok(p) ==
    /\ UNCHANGED interval
    /\ pc[p] = "publishing"
    /\ channel' = channel (+) SetToBag({[method |-> SendMethod(post[p]),
                                         id |-> post[p].id]})
    /\ post_queue' = QueueAfterOk(p)
    /\ delta' = Bump(p, 0, 0)
    /\ Return(p, post_queue')
    /\ UNCHANGED << next_id, answer, fails, n_put, n_got >>

\* what bot.send_photo / bot.send_message can raise: all of them are
\* subclasses of Exception
PublishErrors == {"network", "rate-limit", "invalid destination"}

\* the clause "except Exception as e" of line 55
CaughtInDispatcherNetworkOnly(exc) == exc = "network"
CaughtInDispatcher(exc) == exc \in PublishErrors

\* an exception leaves send_post_to_channel: the scheduler's clause of line
\* 79 logs it and sleeps 60; the endpoint's clause of line 123 answers 500
Propagate(p) ==
    /\ pc' = [pc EXCEPT ![p] = IF p = Sched THEN "sleep60" ELSE "idle"]
    /\ post' = [post EXCEPT ![p] = NoPost]
    /\ IF p = Sched
       THEN UNCHANGED resp
       ELSE resp' = [resp EXCEPT ![p] = [status |-> "500",
                                          queue_size |-> NoSize]]
    /\ now_time' = (IF p = Sched THEN NoTime ELSE now_time)
    /\ prev_size' = [t \in Triggers |-> IF t = p THEN 0 ELSE prev_size[t]]
    /\ call_time' = [t \in Triggers |-> IF t = p THEN "none" ELSE call_time[t]]

\* where the caller is during the backoff: its await of line 72 / 117 has not
\* returned, it is suspended inside send_post_to_channel at line 57
BackoffPointDetached(p) == IF p = Sched THEN "poll" ELSE "backoff"
BackoffPoint(p) == "backoff"

\* bot.send_photo / bot.send_message raises exc (lines 55-57): the clause of
\* line 55 catches it, logs, and sleep(5) starts
Raise(p, exc) ==
    /\ UNCHANGED interval
    /\ pc[p] = "publishing"
    /\ IF CaughtInDispatcher(exc)
       THEN /\ pc' = [pc EXCEPT ![p] = BackoffPoint(p)]
            /\ UNCHANGED << post, now_time, resp, prev_size, call_time >>
       ELSE Propagate(p)
    /\ UNCHANGED << post_queue, next_id, channel, answer, n_put, n_got,
                    delta >>

\* a publish call fails; at most MaxFails of them do
publish_fail(p, exc) ==
    /\ fails < MaxFails
    /\ fails' = fails + 1
    /\ Raise(p, exc)

\* the queue when asyncio.sleep(5) has returned and line 58 has run
QueueAfterBackoffDrop(p) == post_queue
QueueAfterBackoffHead(p) == << Stamp(post[p]) >> \o post_queue
QueueAfterBackoff(p) == QPut(post_queue, post[p])

requeue(p) ==
    /\ UNCHANGED interval
    /\ pc[p] = "backoff"
    /\ post_queue' = QueueAfterBackoff(p)
    /\ n_put' = Tally(n_put)
    /\ delta' = Bump(p, 1, 0)
    /\ Return(p, post_queue')
    /\ UNCHANGED << next_id, channel, answer, fails, n_got >>

Next ==
    \/ \E msg \in Messages : handle_new_post(msg)
    \/ \E k \in 1..Len(ClockPoints) : scheduler_poll(ClockPoints[k])
    \/ scheduler_wake
    \/ \E t \in Triggers : \E k \in 1..Len(RequestTimes) :
           run_scheduler_endpoint(t, RequestTimes[k])
    \/ \E p \in Procs : publish_ok(p)
    \/ \E p \in Procs : \E exc \in PublishErrors : publish_fail(p, exc)
    \/ \E p \in Procs : requeue(p)

Spec == Init /\ [][Next]_vars

\* ---- the same program under the scheduling the event loop gives ----
\* every sleep returns, every publish call returns (normally or by raising),
\* and the clock is inside the window at infinitely many polls
InWindowPoll == \E k \in 1..Len(ClockPoints) :
                    InWindow(ClockPoints[k]) /\ scheduler_poll(ClockPoints[k])
PublishReturns(p) ==
    publish_ok(p) \/ \E exc \in PublishErrors : publish_fail(p, exc)
Fairness ==
    /\ WF_vars(scheduler_wake)
    /\ SF_vars(InWindowPoll)
    /\ \A p \in Procs : WF_vars(PublishReturns(p)) /\ WF_vars(requeue(p))

\* the environment of the fair specification: one client calls
\* /run-scheduler, so that at most one endpoint call is in flight
FairTriggers == {1}

FairNext ==
    \/ \E msg \in Messages : handle_new_post(msg)
    \/ \E k \in 1..Len(ClockPoints) : scheduler_poll(ClockPoints[k])
    \/ scheduler_wake
    \/ \E t \in FairTriggers : \E k \in 1..Len(RequestTimes) :
           run_scheduler_endpoint(t, RequestTimes[k])
    \/ \E p \in Procs : publish_ok(p)
    \/ \E p \in Procs : \E exc \in PublishErrors : publish_fail(p, exc)
    \/ \E p \in Procs : requeue(p)

FairSpec == Init /\ [][FairNext]_vars /\ Fairness

\* ---- the same program when the channel refuses one item for ever ----
\* the first item accepted fails at every publish call, every other item is
\* published at its first call; the failures are not counted
Doomed == 1

publish_ok_other(p) ==
    /\ post[p].id # Doomed
    /\ publish_ok(p)

publish_fail_always(p, exc) ==
    /\ post[p].id = Doomed
    /\ UNCHANGED fails
    /\ Raise(p, exc)

DoomNext ==
    \/ \E msg \in Messages : handle_new_post(msg)
    \/ \E k \in 1..Len(ClockPoints) : scheduler_poll(ClockPoints[k])
    \/ scheduler_wake
    \/ \E t \in FairTriggers : \E k \in 1..Len(RequestTimes) :
           run_scheduler_endpoint(t, RequestTimes[k])
    \/ \E p \in Procs : publish_ok_other(p)
    \/ \E p \in Procs : \E exc \in PublishErrors : publish_fail_always(p, exc)
    \/ \E p \in Procs : requeue(p)

DoomPublishReturns(p) ==
    publish_ok_other(p) \/ \E exc \in PublishErrors : publish_fail_always(p, exc)
DoomFairness ==
    /\ WF_vars(scheduler_wake)
    /\ SF_vars(InWindowPoll)
    /\ \A p \in Procs : WF_vars(DoomPublishReturns(p)) /\ WF_vars(requeue(p))
DoomSpec == Init /\ [][DoomNext]_vars /\ DoomFairness

\* ---- lines 63-67 alone, over a range of configurations ----
ConfigStarts == {time(0, 0, 0, 0), time(8, 0, 0, 0), time(9, 30, 0, 0)}
ConfigEnds == {time(9, 30, 0, 0), time(22, 0, 0, 0), time(23, 59, 0, 0)}
ConfigPosts == (-1) .. MaxPosts

InitInterval ==
    /\ Boot
    /\ \E start \in ConfigStarts : \E end \in ConfigEnds :
          \E posts \in ConfigPosts :
              interval = IntervalInput(start, end, posts)

compute_interval ==
    /\ interval.value = NoValue
    /\ interval' = Interval(interval)
    /\ UNCHANGED << post_queue, next_id, pc, post, now_time, channel, answer,
                    resp, fails, n_put, n_got, prev_size, delta, call_time >>

NextInterval == compute_interval

IntervalSpec == InitInterval /\ [][NextInterval]_vars

\* ---- derived quantities used by the properties ----
Accepted == 1..(next_id - 1)
InQueue(i) == CountIn(Ids(post_queue), i)
InFlight(i) == Cardinality({p \in Procs : post[p].id = i})
Published(i) ==
    CopiesIn([method |-> "send_photo", id |-> i], channel)
    + CopiesIn([method |-> "send_message", id |-> i], channel)
    + CopiesIn([method |-> "none", id |-> i], channel)

\* ---- steps of a process, for the action properties ----
\* trigger t is called
CallStep(t) == pc[t] = "idle" /\ (pc'[t] # "idle" \/ resp'[t] # resp[t])
\* process p dequeues
DequeueStep(p) == pc[p] \in {"poll", "idle"} /\ pc'[p] = "publishing"
\* the scheduler runs an iteration up to its first suspension
PollStep == pc[Sched] = "poll" /\ pc'[Sched] # "poll"
\* the call of trigger t returns
ReturnStep(t) == pc[t] \in {"publishing", "backoff"} /\ pc'[t] = "idle"

\* C1: no accepted item is ever lost: every item handle_new_post has put is
\* in exactly one place: once in the queue, or held by exactly one dispatch
\* (publishing or in backoff), or published; so a failed publish ends with
\* the item back in the queue.
C1_NoItemLost ==
    \A i \in Accepted : InQueue(i) + InFlight(i) + Published(i) = 1

\* the only accepted item was put twice: its publish failed and it is back
\* in the queue, its dispatch over
C1_Witness ==
    /\ next_id = 2 /\ n_put = 2
    /\ InQueue(1) = 1
    /\ \A p \in Procs : post[p] = NoPost

\* C2: no item is delivered twice: the publish call succeeds at most once
\* per item, and a published item is neither in the queue again nor held by
\* a dispatch (handed to the publish collaborator) again.
C2_NoDoubleDelivery ==
    \A i \in Accepted :
        /\ Published(i) <= 1
        /\ Published(i) = 1 => InQueue(i) = 0 /\ InFlight(i) = 0

\* the only accepted item was put twice and got twice: it was published on
\* its retry
C2_Witness ==
    /\ next_id = 2 /\ n_put = 2 /\ n_got = 2
    /\ Published(1) = 1

\* C3: exclusive dequeue: two dispatches in flight at the same time hold
\* distinct item instances, and every get() returned the item of a put() of
\* its own: the items in flight come from distinct puts that were dequeued,
\* the items in the queue from puts that were not, so no item is dequeued
\* more often than it was (re-)enqueued.
C3_ExclusiveDequeue ==
    /\ \A p, q \in Procs :
           (p # q /\ post[p] # NoPost) =>
               post[p].id # post[q].id /\ post[p].seq # post[q].seq
    /\ \A p \in Procs : post[p] # NoPost => post[p].seq \in 1..n_got
    /\ \A k \in 1..Len(post_queue) : post_queue[k].seq \in (n_got + 1)..n_put
    /\ n_got <= n_put

\* the scheduler and a manual trigger are both in flight
C3_Witness ==
    /\ post[Sched] # NoPost
    /\ \E t \in Triggers : post[t] # NoPost

\* C4: when the backoff of a failed delivery ends, the item is appended
\* behind everything that is in the queue at that moment, never at the head.
C4_RequeueAtTail ==
    [][\A p \in Procs :
          (pc[p] = "backoff" /\ pc'[p] # "backoff") =>
              /\ Len(post_queue') = Len(post_queue) + 1
              /\ post_queue'[Len(post_queue')].id = post[p].id
              /\ post_queue'[Len(post_queue')].type = post[p].type
              /\ \A k \in 1..Len(post_queue) : post_queue'[k] = post_queue[k]]_vars

\* A was put, dequeued and its publish failed, B was put: the queue is [B, A]
C4_Witness ==
    /\ n_put = 3 /\ n_got = 1
    /\ Ids(post_queue) = << 2, 1 >>
    /\ \A p \in Procs : post[p] = NoPost

\* C5: FIFO: the queue always holds, in order, exactly the puts that were not
\* dequeued yet, so the k-th dequeue returns the item of the k-th put; a
\* dequeue attempt on an empty queue reports empty and returns no item.
C5_Fifo ==
    /\ [](/\ Len(post_queue) = n_put - n_got
          /\ \A k \in 1..Len(post_queue) : post_queue[k].seq = n_got + k)
    /\ [][/\ \A p \in Procs : DequeueStep(p) => post'[p].seq = n_got + 1
          /\ (PollStep /\ post_queue = << >>) =>
                 pc'[Sched] = "sleep30" /\ post'[Sched] = NoPost
          /\ \A t \in Triggers :
                 (CallStep(t) /\ post_queue = << >>) =>
                     /\ resp'[t].status = "Queue is empty"
                     /\ post'[t] = NoPost /\ pc'[t] = "idle"]_vars

\* two items were put and dequeued, then a trigger found the queue empty
C5_Witness ==
    /\ n_got >= 2
    /\ post_queue = << >>
    /\ \E t \in Triggers : resp[t].status = "Queue is empty"

\* C6: the manual trigger on an empty queue leaves the queue unchanged,
\* makes no publish call and reports "Queue is empty".
C6_TriggerEmptyNoop ==
    [][\A t \in Triggers :
          (CallStep(t) /\ post_queue = << >>) =>
              /\ post_queue' = post_queue
              /\ pc'[t] = "idle" /\ post'[t] = NoPost
              /\ channel' = channel
              /\ resp'[t] = [status |-> "Queue is empty", queue_size |-> NoSize]]_vars

\* a trigger call found the queue empty after the item had been published
C6_Witness ==
    \E t \in Triggers :
        /\ resp[t].status = "Queue is empty"
        /\ pc[t] = "idle"
        /\ post_queue = << >>
        /\ Published(1) = 1

\* C7 as stated: when the publish of a manual trigger succeeded, the queue
\* size it reports is the size at the moment of the call minus 1, in every
\* interleaving.
C7_SizeIsPrevMinusOne ==
    [][\A t \in Triggers :
          (pc[t] = "publishing" /\ pc'[t] = "idle") =>
              resp'[t].queue_size = prev_size[t] - 1]_vars

\* C7 amended: the manual trigger on a non-empty queue removes exactly the
\* head, and when its publish succeeds the reported size is the size at the
\* call minus 1, plus the items put and minus the items got by the others
\* (inbound submissions, scheduler dispatches, other trigger calls) between
\* its dequeue and its return.
C7_SizeIsPrevMinusOnePlusDelta ==
    [][\A t \in Triggers :
          /\ (CallStep(t) /\ post_queue # << >>) =>
                 /\ post'[t] = Head(post_queue)
                 /\ post_queue' = Tail(post_queue)
          /\ (pc[t] = "publishing" /\ pc'[t] = "idle") =>
                 resp'[t].queue_size = prev_size[t] - 1 + delta[t]]_vars

\* an item was put while the publish call of a trigger is in flight: the
\* queue is as long as it was when the trigger was called
C7_Witness ==
    \E t \in Triggers :
        /\ pc[t] = "publishing"
        /\ delta[t] = 1
        /\ Len(post_queue) = prev_size[t]

\* C8: the manual trigger returns "Post sent from queue" only if the publish
\* call for the item it dequeued succeeded (it returns from the publish
\* call, not from the backoff), and the queue size it returns is the size
\* after that delivery attempt has completed.
C8_SentOnlyIfPublished ==
    [][\A t \in Triggers :
          ReturnStep(t) =>
              /\ resp'[t].status = "Post sent from queue" => pc[t] = "publishing"
              /\ resp'[t].queue_size = Len(post_queue')]_vars

\* the active window of the claim, in seconds of the day: 08:00:00.000000
\* up to and including 22:00:00.000000
SecondsOfDay(t) == t.hour * 3600 + t.minute * 60 + t.second
InsideWindow(t) ==
    /\ 8 * 3600 <= SecondsOfDay(t)
    /\ \/ SecondsOfDay(t) < 22 * 3600
       \/ SecondsOfDay(t) = 22 * 3600 /\ t.microsecond = 0

\* C9: an iteration of the scheduler loop dequeues (the head) exactly when
\* the time it read is inside the window, both boundary instants included,
\* and the queue is non-empty; an iteration that reads a time outside the
\* window leaves the queue unchanged.
C9_WindowGate ==
    [][PollStep =>
          /\ post'[Sched] # NoPost <=>
                 (InsideWindow(now_time') /\ post_queue # << >>)
          /\ post'[Sched] # NoPost =>
                 post'[Sched] = Head(post_queue) /\ post_queue' = Tail(post_queue)
          /\ ~InsideWindow(now_time') => post_queue' = post_queue]_vars

\* the loop dequeued in an iteration that read exactly 22:00
C9_Witness ==
    /\ pc[Sched] = "publishing"
    /\ now_time = END_TIME
    /\ post[Sched] # NoPost

\* C10: a manual trigger call with a non-empty queue dequeues one item and
\* starts its delivery whatever the time of day, outside the window too.
C10_TriggerAnyTime ==
    [][\A t \in Triggers :
          (CallStep(t) /\ post_queue # << >>) =>
              /\ pc'[t] = "publishing"
              /\ post'[t] # NoPost
              /\ Len(post_queue') = Len(post_queue) - 1]_vars

\* a call made outside the window is publishing the item it dequeued
C10_Witness ==
    \E t \in Triggers :
        /\ call_time[t] = "out"
        /\ pc[t] = "publishing"
        /\ post[t] # NoPost

\* C11: an inbound message changes the queue only if its sender is the
\* operator and it carries a photo or a text, and then exactly one item, a
\* new one, is appended at the tail; any other message (another sender, or
\* neither photo nor text) leaves the queue unchanged.
C11_Admission ==
    [][(answer' # answer \/ next_id' # next_id) =>
          \A msg \in Messages :
              \/ IF msg.from_user = ADMIN_ID /\ (msg.photo \/ msg.text)
                 THEN /\ Len(post_queue') = Len(post_queue) + 1
                      /\ \A k \in 1..Len(post_queue) :
                            post_queue'[k] = post_queue[k]
                      /\ post_queue'[Len(post_queue')].id = next_id
                      /\ InQueue(next_id) = 0 /\ InFlight(next_id) = 0
                 ELSE post_queue' = post_queue
              \/ ~handle_new_post(msg)]_vars

\* a message was rejected as unsupported while an item was in the queue
C11_Witness ==
    /\ answer.kind = "unsupported"
    /\ n_put = 1
    /\ Len(post_queue) = 1

\* the publish call of process p raises
FailStep(p) ==
    pc[p] = "publishing" /\ pc'[p] # "publishing" /\ fails' = fails + 1
\* process p leaves the backoff of line 57
BackoffEnd(p) == pc[p] = "backoff" /\ pc'[p] # "backoff"

\* C12: a delivery failure is absorbed inside send_post_to_channel: after a
\* raising publish the dispatch goes to its backoff, puts the item back and
\* returns normally to its caller, so the scheduler is never in the 60 s
\* sleep of its except clause and no endpoint call answers 500.
C12_FailureAbsorbed ==
    /\ [](pc[Sched] # "sleep60" /\ \A t \in Triggers : resp[t].status # "500")
    /\ [][\A p \in Procs :
            /\ FailStep(p) => pc'[p] = "backoff" /\ post'[p] = post[p]
            /\ BackoffEnd(p) =>
                  /\ pc'[p] = (IF p = Sched THEN "poll" ELSE "idle")
                  /\ CountIn(Ids(post_queue'), post[p].id) = 1]_vars

\* a publish has failed and its dispatch has returned: every process is back
\* at a normal point and the item waits in the queue
C12_Witness ==
    /\ fails = 1
    /\ n_put = next_id
    /\ pc[Sched] = "poll"
    /\ \A t \in Triggers : pc[t] = "idle"
    /\ post_queue # << >>

\* the points of the scheduler's loop body
LoopStates == {"poll", "publishing", "backoff", "sleep30", "sleep60"}

C16_SizeAccounting ==
    /\ Len(post_queue) = n_put - n_got
    /\ n_put - n_got >= 0
    /\ n_put = (next_id - 1) + fails
                 - Cardinality({p \in Procs : pc[p] = "backoff"})

\* two inbound puts and one put of the failure path, two gets
C16_Witness ==
    /\ next_id = 3
    /\ n_put = 3
    /\ n_got = 2
    /\ Len(post_queue) = 1

\* C17: the advisory interval is (end - start) in seconds divided by the
\* posts per day when that number is positive, and 3600 seconds otherwise:
\* 5040 seconds for 08:00-22:00 with 10 posts per day, 3600 seconds with 0
\* posts per day, where nothing is divided by zero.
C17_Interval ==
    interval.value # NoValue =>
        /\ interval.value.den > 0
        /\ IF interval.posts_per_day > 0
           THEN interval.value.num * interval.posts_per_day
                  = (SecondsOfDay(interval.end) - SecondsOfDay(interval.start))
                      * interval.value.den
           ELSE interval.value.num = 3600 * interval.value.den
        /\ (interval.start = time(8, 0, 0, 0) /\ interval.end = time(22, 0, 0, 0))
              => /\ interval.posts_per_day = 10
                    => interval.value.num = 5040 * interval.value.den
                 /\ interval.posts_per_day = 0
                    => interval.value.num = 3600 * interval.value.den

\* the interval has been computed for 08:00-22:00 with 0 posts per day
C17_Witness ==
    /\ interval.start = time(8, 0, 0, 0)
    /\ interval.end = time(22, 0, 0, 0)
    /\ interval.posts_per_day = 0
    /\ interval.value = [num |-> 3600, den |-> 1]

\* the scheduler's dispatch is over: send_post_to_channel has returned
SchedDispatchEnd ==
    /\ pc[Sched] \in {"publishing", "backoff"}
    /\ pc'[Sched] \notin {"publishing", "backoff"}

\* C18: the scheduler takes at most one item per iteration and is not
\* slowed down to the advisory interval: when a dispatch is over, whether it
\* published or failed, the next iteration starts with no 30 s sleep, so
\* with the window open the queued items go out in consecutive iterations;
\* the 30 s sleep is taken in exactly the iterations that find the window
\* closed or the queue empty.
C18_OnePerIterationNoThrottle ==
    [][/\ PollStep =>
            /\ pc'[Sched] = "sleep30"
                 <=> ~(InsideWindow(now_time') /\ post_queue # << >>)
            /\ pc'[Sched] # "sleep30"
                 => /\ pc'[Sched] = "publishing"
                    /\ n_got' = n_got + 1
                    /\ Len(post_queue') = Len(post_queue) - 1
       /\ SchedDispatchEnd => pc'[Sched] = "poll"
       /\ (pc'[Sched] = "sleep30" /\ pc[Sched] # "sleep30")
            => pc[Sched] = "poll"]_vars

\* the scheduler has published an item and is at the top of its next
\* iteration with another item waiting
C18_Witness ==
    /\ pc[Sched] = "poll"
    /\ now_time = NoTime
    /\ fails = 0
    /\ n_got = 1
    /\ Published(1) = 1
    /\ post_queue # << >>
    /\ \A t \in Triggers : resp[t] = NoResp /\ pc[t] = "idle"

\* C19: neither the scheduler nor an endpoint call is ever suspended inside
\* post_queue.get(): the test for a non-empty queue and the get run with no
\* suspension between them, so the get always finds an item, also when the
\* other dequeuer has just taken the last one.
C19_NoBlockedGet ==
    /\ \A p \in Procs : pc[p] # "get"
    /\ \A p \in Procs : pc[p] \in {"publishing", "backoff"} <=> post[p] # NoPost

\* the scheduler holds the only item and an endpoint call, made meanwhile,
\* has found the queue empty and returned at once
C19_Witness ==
    /\ pc[Sched] = "publishing"
    /\ post_queue = << >>
    /\ n_put = 1
    /\ \E t \in Triggers : pc[t] = "idle" /\ resp[t].status = "Queue is empty"

\* C20: the scheduler is serial: it has at most one item in flight, and from
\* the get of an item until its dispatch is over (published, or failed, backed
\* off and put back at the tail) it gets no other item; endpoint calls may
\* get and deliver other items meanwhile.
C20_SchedulerSerial ==
    /\ [](pc[Sched] \in {"poll", "sleep30", "sleep60"} => post[Sched] = NoPost)
    /\ [][/\ DequeueStep(Sched) => post[Sched] = NoPost
          /\ post[Sched] # NoPost =>
                \/ post'[Sched] = post[Sched] /\ ~SchedDispatchEnd
                \/ /\ SchedDispatchEnd
                   /\ post'[Sched] = NoPost
                   /\ \E i \in {post[Sched].id} :
                         \/ Published(i)' = Published(i) + 1
                         \/ /\ pc[Sched] = "backoff"
                            /\ post_queue'[Len(post_queue')].id = i]_vars

\* the scheduler is in the backoff of its item while an endpoint call, made
\* since the scheduler's get, is publishing another item
C20_Witness ==
    /\ pc[Sched] = "backoff"
    /\ \E t \in Triggers :
          /\ pc[t] = "publishing"
          /\ post[t].seq > post[Sched].seq

\* C14: at-least-once delivery: when the loop keeps running, the window is
\* open at infinitely many polls and every publish call returns, every item
\* handle_new_post has accepted is published at some time, however its
\* publish calls fail before (each item fails finitely often).
C14_EventuallyPublished ==
    \A i \in 1..MaxItems : (i \in Accepted) ~> (Published(i) >= 1)

\* the only item accepted has failed once, was put back and then published
C14_Witness ==
    /\ next_id = 2
    /\ fails = 1
    /\ n_put = 2
    /\ n_got = 2
    /\ Published(1) = 1

\* C15: an item that fails for ever does not starve the others: under the
\* same fairness, when every publish call for the first item fails and the
\* publish calls for the other items succeed, every other accepted item is
\* published at some time, wherever it is in the queue, and the failing item
\* is tried again and again without ever being published.
C15_NoStarvation ==
    /\ \A b \in (1..MaxItems) \ {Doomed} : (b \in Accepted) ~> (Published(b) >= 1)
    /\ [](Published(Doomed) = 0)
    /\ (Doomed \in Accepted)
          ~> (\E p \in Procs : pc[p] = "backoff" /\ post[p].id = Doomed)

\* another item has been published while the failing item, dequeued several
\* times, waits in the queue for its next attempt
C15_Witness ==
    /\ Published(Doomed) = 0
    /\ InQueue(Doomed) = 1
    /\ n_got = HistoryCap
    /\ \E b \in Accepted \ {Doomed} : Published(b) = 1

====
